---- MODULE Spec2Model ----
(***************************************************************************)
(* StressOFF biometric analytics: the /analyze-health handler of           *)
(* backend/main.py (the daily aggregator: statistics, stress index and     *)
(* threshold alerts).                                                      *)
(*                                                                         *)
(* Numbers.  The handler works on Python floats.  The model draws integer  *)
(* field values and carries every quotient as an exact rational            *)
(* [num, den] with den > 0, so a mean, a variance and a relative drop are  *)
(* the values the float code approximates.  round(x, 1) is modelled on the *)
(* rational (round-half-even to tenths): with at most MaxLen + 1 < 20      *)
(* samples the only ties are x.25 and x.75, which are exact in binary.     *)
(* Optional values (Python None) are sequences: <<>> is None, <<v>> is v.  *)
(***************************************************************************)
EXTENDS Integers, Sequences, FiniteSets, TLC

VARIABLES
    \* the /analyze-health handler
    request, pc, locals, upstream, response,
    \* one call of the signal generator
    gen_call, gen_result,
    \* run_simulation: the wall clock, the position in the loop, its locals,
    \* the documents in the sink, the outcome of the last send_to_firestore
    clock, rpc, current_time, last_sleep_date, run_metrics, run_sleep_data,
    health_docs, sleep_docs, last_send,
    \* history of the run: iterations begun, steps of the current iteration,
    \* dates of earlier iterations, dates generate_sleep_data was called for
    iteration, trace, seen_dates, sleep_generated

aggVars == <<request, pc, locals, upstream, response>>
genVars == <<gen_call, gen_result>>
runVars ==
    <<clock, rpc, current_time, last_sleep_date, run_metrics, run_sleep_data,
      health_docs, sleep_docs, last_send, iteration, trace, seen_dates,
      sleep_generated>>
vars == <<aggVars, genVars, runVars>>

\* ------------------------------------------------------------------ bounds
MaxLen == 4
\* iterations of the run loop
MaxTicks == 4

\* ------------------------------------------------------- optional values
None == <<>>
Some(v) == <<v>>

\* ------------------------------------------------------ float arithmetic
Rat(n, d) == [num |-> n, den |-> d]
RInt(n) == Rat(n, 1)

RECURSIVE GCD(_, _)
GCD(a, b) == IF b = 0 THEN a ELSE GCD(b, a % b)

\* n / d in lowest terms (d >= 0)
Norm(n, d) ==
    LET g == GCD(IF n < 0 THEN -n ELSE n, d)
    IN  IF g = 0 THEN Rat(n, d) ELSE Rat(n \div g, d \div g)

RSub(a, b) == Norm(a.num * b.den - b.num * a.den, a.den * b.den)
\* a / b for b # 0 (the caller models ZeroDivisionError for b = 0)
RDiv(a, b) ==
    IF b.num > 0 THEN Norm(a.num * b.den, a.den * b.num)
                 ELSE Norm(-(a.num * b.den), -(a.den * b.num))
RAdd(a, b) == Norm(a.num * b.den + b.num * a.den, a.den * b.den)
RMul(a, b) == Norm(a.num * b.num, a.den * b.den)
RLt(a, b) == a.num * b.den < b.num * a.den
RGt(a, b) == RLt(b, a)
RMin(a, b) == IF RLt(b, a) THEN b ELSE a

RMax(a, b) == IF RLt(a, b) THEN b ELSE a

\* int(x): truncation toward zero
PyInt(x) ==
    IF x.num >= 0 THEN x.num \div x.den ELSE -((-x.num) \div x.den)

\* round(x, 1), as a number of tenths: round-half-even
Round1(x) ==
    LET q == (10 * x.num) \div x.den
        r2 == 2 * (10 * x.num - q * x.den)
    IN  IF r2 < x.den THEN q
        ELSE IF r2 > x.den THEN q + 1
        ELSE IF q % 2 = 0 THEN q ELSE q + 1

\* round(x, 2), as a number of hundredths
Round2(x) == Round1(Rat(10 * x.num, x.den))

\* truthiness of an Optional[float]: None and 0.0 are falsy
Truthy(opt) == opt # None /\ opt[1].num # 0

\* ---------------------------------------------------------- list helpers
RECURSIVE Sum(_)
Sum(s) == IF s = <<>> THEN 0 ELSE Head(s) + Sum(Tail(s))

RECURSIVE Insert(_, _)
Insert(x, s) ==
    IF s = <<>> THEN <<x>>
    ELSE IF x < Head(s) THEN <<x>> \o s
    ELSE <<Head(s)>> \o Insert(x, Tail(s))

RECURSIVE Sorted(_)
Sorted(s) == IF s = <<>> THEN <<>> ELSE Insert(Head(s), Sorted(Tail(s)))

\* s[lo:hi] with Python's 0-based, end-exclusive bounds
Slice(s, lo, hi) == SubSeq(s, lo + 1, hi)

\* ------------------------------------------------------------ request data
\* HealthMetric.  calories is carried in tenths of a kcal.
HrvValues == {-10, 30, 40, 50}
Spo2Values == {None, Some(0), Some(94)}
ActiveValues == {39, 40}

DefaultMetric ==
    [heartRate |-> 70, restingHeartRate |-> 60, hrv |-> 50, steps |-> 100,
     calories |-> 12, activeMinutes |-> 40, spo2 |-> Some(94)]

\* the samples a request is built from: the default sample with at most one
\* of the fields the alert rules read set to another value of its range
Metrics ==
    {[DefaultMetric EXCEPT !.hrv = v] : v \in HrvValues}
    \cup {[DefaultMetric EXCEPT !.spo2 = v] : v \in Spo2Values}
    \cup {[DefaultMetric EXCEPT !.activeMinutes = v] : v \in ActiveValues}

\* SleepData.durationHours, in tenths of an hour; None when not supplied
SleepValues == {None, Some([durationHours |-> 59]), Some([durationHours |-> 60])}

MetricLists == UNION {[1..n -> Metrics] : n \in 0..MaxLen}

Requests == [metrics : MetricLists, sleepData : SleepValues]

\* what the hosted model answers to requests.post
LlmReplies == {"ok", "http_error", "no_choices", "empty_content", "bad_json"}

\* ----------------------------------------------------- daily statistics
\* mutant: the emptiness check is missing
NoMetricsUnchecked(metrics) == FALSE

\* `if not request.metrics`
NoMetrics(metrics) == Len(metrics) = 0

hrv_values(metrics) == [i \in 1..Len(metrics) |-> metrics[i].hrv]
resting_hr_values(metrics) == [i \in 1..Len(metrics) |-> metrics[i].restingHeartRate]

RECURSIVE spo2_values(_)
spo2_values(metrics) ==
    IF metrics = <<>> THEN <<>>
    ELSE (IF Head(metrics).spo2 # None THEN <<Head(metrics).spo2[1]>> ELSE <<>>)
         \o spo2_values(Tail(metrics))

\* mutant: the lower-middle element, (n - 1)//2
MedianIndexLower(n) == (n - 1) \div 2

\* index taken in the sorted list (0-based)
MedianIndex(n) == n \div 2

median_hrv(metrics) ==
    Sorted(hrv_values(metrics))[MedianIndex(Len(metrics)) + 1]

avg_resting_hr(metrics) == Rat(Sum(resting_hr_values(metrics)), Len(metrics))

avg_spo2(metrics) ==
    IF spo2_values(metrics) # <<>>
    THEN Some(Rat(Sum(spo2_values(metrics)), Len(spo2_values(metrics))))
    ELSE None

total_steps(metrics) == Sum([i \in 1..Len(metrics) |-> metrics[i].steps])
total_calories(metrics) == Sum([i \in 1..Len(metrics) |-> metrics[i].calories])
total_active_minutes(metrics) ==
    Sum([i \in 1..Len(metrics) |-> metrics[i].activeMinutes])

\* mutant: squared deviations from the arithmetic mean S/n
hrv_variance_around_mean(metrics) ==
    LET hv == hrv_values(metrics)
        n == Len(hv)
        S == Sum(hv)
    IN  Rat(Sum([i \in 1..n |-> (n * hv[i] - S) * (n * hv[i] - S)]), n * n * n)

hrv_variance(metrics) ==
    LET m == median_hrv(metrics)
        hv == hrv_values(metrics)
    IN  Rat(Sum([i \in 1..Len(hv) |-> (hv[i] - m) * (hv[i] - m)]), Len(hv))

\* mutant: the min(10, ...) cap is missing
stress_level_uncapped(metrics) == RDiv(hrv_variance(metrics), RInt(10))

stress_level(metrics) == RMin(RInt(10), RDiv(hrv_variance(metrics), RInt(10)))

\* lines 565-580 raise only on an empty list (IndexError, ZeroDivisionError)
StatsRaise(metrics) == Len(metrics) = 0

\* --------------------------------------------------------- alert rules
HRV_DROP == "HRV dropped more than 20% - possible stress or overtraining"
SLEEP_LOW == "Sleep duration low"
SPO2_LOW == "Low blood oxygen"
SEDENTARY == "Very low activity detected - try to move more throughout the day"

\* `if len(hrv_values) > 1`
HrvGuard(hv) == Len(hv) > 1

\* len(hrv_values)//2, where the list is cut in two
HrvSplit(hv) == Len(hv) \div 2

hrv_baseline(hv) == Rat(Sum(Slice(hv, 0, HrvSplit(hv))), HrvSplit(hv))
hrv_recent(hv) ==
    Rat(Sum(Slice(hv, HrvSplit(hv), Len(hv))), Len(hv) - HrvSplit(hv))

\* `hrv_baseline > 0`, the left operand of the `and`
BaselineGuard(b) == b.num > 0

\* mutant: `>=` for `>`
DropAtLeast(b, r) == ~RLt(RDiv(RSub(b, r), b), Rat(20, 100))

\* `(hrv_baseline - hrv_recent) / hrv_baseline > 0.20`
DropExceeds(b, r) == RGt(RDiv(RSub(b, r), b), Rat(20, 100))

HrvDropAlert(metrics) ==
    LET hv == hrv_values(metrics)
    IN  /\ HrvGuard(hv)
        /\ BaselineGuard(hrv_baseline(hv))
        /\ DropExceeds(hrv_baseline(hv), hrv_recent(hv))

\* mutant: `<=` for `<`
SleepAlertAtMost(sleepData) ==
    sleepData # None /\ sleepData[1].durationHours <= 60

\* `request.sleepData and request.sleepData.durationHours < 6`
\* (a pydantic object is always truthy)
SleepAlert(sleepData) == sleepData # None /\ sleepData[1].durationHours < 60

\* `avg_spo2 and avg_spo2 < 94`
Spo2Alert(metrics) ==
    Truthy(avg_spo2(metrics)) /\ RLt(avg_spo2(metrics)[1], RInt(94))

sedentary_hours(metrics) == Rat(24 * 60 - total_active_minutes(metrics), 60)

\* mutant: `>=` for `>`
SedentaryAlertAtLeast(metrics) == ~RLt(sedentary_hours(metrics), RInt(22))

\* `sedentary_hours > 22`
SedentaryAlert(metrics) == RGt(sedentary_hours(metrics), RInt(22))

\* mutant: the sleep rule is evaluated before the HRV rule
alerts_reordered(req) ==
    (IF SleepAlert(req.sleepData) THEN <<SLEEP_LOW>> ELSE <<>>)
    \o (IF HrvDropAlert(req.metrics) THEN <<HRV_DROP>> ELSE <<>>)
    \o (IF Spo2Alert(req.metrics) THEN <<SPO2_LOW>> ELSE <<>>)
    \o (IF SedentaryAlert(req.metrics) THEN <<SEDENTARY>> ELSE <<>>)

\* the alerts list after line 603: one append per rule that fires
alerts(req) ==
    (IF HrvDropAlert(req.metrics) THEN <<HRV_DROP>> ELSE <<>>)
    \o (IF SleepAlert(req.sleepData) THEN <<SLEEP_LOW>> ELSE <<>>)
    \o (IF Spo2Alert(req.metrics) THEN <<SPO2_LOW>> ELSE <<>>)
    \o (IF SedentaryAlert(req.metrics) THEN <<SEDENTARY>> ELSE <<>>)

\* lines 586-589 divide by len//2 and by hrv_baseline: ZeroDivisionError
AlertsRaise(metrics) ==
    LET hv == hrv_values(metrics)
    IN  /\ HrvGuard(hv)
        /\ \/ HrvSplit(hv) = 0
           \/ Len(hv) - HrvSplit(hv) = 0
           \/ BaselineGuard(hrv_baseline(hv)) /\ hrv_baseline(hv).num = 0

\* ------------------------------------------------------------- the prompt
\* line 655 formats `{avg_spo2:.1f}` inside the f-string: the conditional
\* after it is literal text, so None raises TypeError
PromptRaises(metrics) == avg_spo2(metrics) = None

\* ------------------------------------------------------------ the handler
NoLocals ==
    [median_hrv |-> None, avg_resting_hr |-> None, avg_spo2 |-> None,
     total_steps |-> None, total_calories |-> None,
     total_active_minutes |-> None, stress_level |-> None, alerts |-> None]

\* the locals assigned by lines 565-580
StatLocals(metrics) ==
    [NoLocals EXCEPT
        !.median_hrv = Some(median_hrv(metrics)),
        !.avg_resting_hr = Some(avg_resting_hr(metrics)),
        !.avg_spo2 = Some(avg_spo2(metrics)),
        !.total_steps = Some(total_steps(metrics)),
        !.total_calories = Some(total_calories(metrics)),
        !.total_active_minutes = Some(total_active_minutes(metrics)),
        !.stress_level = Some(stress_level(metrics))]

\* the "dailyStats" object of the response, built from the locals; rounded
\* values are in tenths
dailyStats(l) ==
    [avgRestingHR |-> Round1(l.avg_resting_hr[1]),
     medianHRV |-> Round1(RInt(l.median_hrv[1])),
     totalSteps |-> l.total_steps[1],
     totalCalories |-> Round1(Rat(l.total_calories[1], 10)),
     totalActiveMinutes |-> l.total_active_minutes[1],
     avgSpO2 |-> IF Truthy(l.avg_spo2[1])
                 THEN Some(Round1(l.avg_spo2[1][1])) ELSE None,
     stressLevel |-> Round1(l.stress_level[1])]

\* lines 564-671: the locals the handler has assigned when it reaches the
\* call of the hosted model, or when it raises before; raised is the
\* exception ("" when none)
Aggregate(req) ==
    IF NoMetrics(req.metrics) THEN
        [locals |-> NoLocals, raised |-> "HTTPException"]
    ELSE IF StatsRaise(req.metrics) THEN
        [locals |-> NoLocals, raised |-> "IndexError"]
    ELSE IF AlertsRaise(req.metrics) THEN
        [locals |-> StatLocals(req.metrics), raised |-> "ZeroDivisionError"]
    ELSE
        [locals |-> [StatLocals(req.metrics) EXCEPT !.alerts = Some(alerts(req))],
         raised |-> IF PromptRaises(req.metrics) THEN "TypeError" ELSE ""]

HTTPError(status, detail) == [status |-> status, detail |-> detail, body |-> None]

\* `except Exception as e: raise HTTPException(500, ...)`
Failed(exc) == HTTPError(500, "Health analysis failed: " \o exc)

\* lines 686-725: the response, given the locals and the model's reply
Respond(l, reply) ==
    CASE reply = "http_error" ->
            HTTPError(502, "Health analysis service temporarily unavailable")
      [] reply = "no_choices" ->
            HTTPError(502, "Invalid response from health analysis service")
      [] reply = "empty_content" ->
            HTTPError(502, "Empty response from health analysis service")
      [] reply = "bad_json" -> Failed("JSONDecodeError")
      [] OTHER ->
            [status |-> 200, detail |-> "",
             body |-> Some([alerts |-> l.alerts[1], dailyStats |-> dailyStats(l)])]

\* ------------------------------------------------- the signal generator
\* smartwatch_simulator.py.  A clock time is [date, hour, minute]; decimal
\* literals are exact rationals (0.75 is 75/100).
INTERVAL_MINUTES == 1
base_resting_hr == 60
base_hrv == 50

time_decimal(t) == RAdd(RInt(t.hour), Rat(t.minute, 60))

\* mutant: the wake-up span taken as 1 hour
wake_progress_one_hour(t) == RDiv(RSub(time_decimal(t), RInt(7)), RInt(1))

\* `(time_decimal - 7) / 2.0`
wake_progress(t) == RDiv(RSub(time_decimal(t), RInt(7)), RInt(2))

\* `(time_decimal - 18) / 3.0`
wind_down(t) == RDiv(RSub(time_decimal(t), RInt(18)), RInt(3))

Factors(hr, hrv, act, sleeping) ==
    [hr_multiplier |-> hr, hrv_multiplier |-> hrv, activity |-> act,
     is_sleeping |-> sleeping]

\* mutant: the sleep phase starts at 22:00
InSleepPhaseFrom22(hour) == 22 <= hour \/ hour < 7

\* `23 <= hour or hour < 7`
InSleepPhase(hour) == 23 <= hour \/ hour < 7

get_time_of_day_factor(t) ==
    IF InSleepPhase(t.hour) THEN
        Factors(Rat(75, 100), Rat(13, 10), RInt(0), TRUE)
    ELSE IF 7 <= t.hour /\ t.hour < 9 THEN
        Factors(RAdd(Rat(75, 100), RMul(Rat(25, 100), wake_progress(t))),
                RSub(Rat(13, 10), RMul(Rat(3, 10), wake_progress(t))),
                RMul(wake_progress(t), Rat(3, 10)),
                FALSE)
    ELSE IF 9 <= t.hour /\ t.hour < 12 THEN
        Factors(Rat(11, 10), Rat(95, 100), Rat(6, 10), FALSE)
    ELSE IF 12 <= t.hour /\ t.hour < 14 THEN
        Factors(Rat(95, 100), Rat(105, 100), Rat(3, 10), FALSE)
    ELSE IF 14 <= t.hour /\ t.hour < 18 THEN
        Factors(Rat(115, 100), Rat(85, 100), Rat(8, 10), FALSE)
    ELSE IF 18 <= t.hour /\ t.hour < 21 THEN
        Factors(RSub(Rat(11, 10), RMul(Rat(2, 10), wind_down(t))),
                RAdd(Rat(9, 10), RMul(Rat(2, 10), wind_down(t))),
                RSub(Rat(5, 10), RMul(Rat(3, 10), wind_down(t))),
                FALSE)
    ELSE
        Factors(Rat(85, 100), Rat(115, 100), Rat(1, 10), FALSE)

\* mutant: no clamp
Unclamped(lo, hi, x) == x

\* `max(lo, min(hi, x))`
Clamp(lo, hi, x) == RMax(RInt(lo), RMin(RInt(hi), x))

\* mutant: round(...) for int(...)
active_minutes_rounded(activity) ==
    Round1(Rat(activity.num * INTERVAL_MINUTES, 10 * activity.den))

\* `int(factors['activity'] * INTERVAL_MINUTES)`
active_minutes(activity) == PyInt(RMul(activity, RInt(INTERVAL_MINUTES)))

\* generate_metrics(current_time); d holds the values drawn from random.
\* The rounded fields (heartRate, restingHeartRate, hrv, calories, spo2)
\* are in tenths.
generate_metrics(t, d) ==
    LET factors == get_time_of_day_factor(t)
        hr == RAdd(RMul(RInt(base_resting_hr), factors.hr_multiplier),
                   RInt(d.hr_noise))
        resting_hr == RAdd(RInt(base_resting_hr), RInt(d.resting_noise))
        hrv == RAdd(RMul(RInt(base_hrv), factors.hrv_multiplier),
                    RInt(d.hrv_noise))
        steps_per_interval == PyInt(RMul(factors.activity, RInt(d.steps_uniform)))
        calories == RMul(RAdd(Rat(12, 10), RMul(factors.activity, RInt(5))),
                         RInt(INTERVAL_MINUTES))
        spo2 == Clamp(94, 100, RAdd(RInt(97), RInt(d.spo2_noise)))
    IN  [timestamp |-> t,
         heartRate |-> Round1(Clamp(45, 120, hr)),
         restingHeartRate |-> Round1(Clamp(50, 75, resting_hr)),
         hrv |-> Round1(Clamp(20, 100, hrv)),
         steps |-> steps_per_interval,
         calories |-> Round1(calories),
         activeMinutes |-> active_minutes(factors.activity),
         spo2 |-> Round1(spo2),
         is_sleeping |-> factors.is_sleeping]

\* mutant: the REM share is not taken off
light_pct_without_rem(deep_pct, rem_pct) == RSub(RInt(1), deep_pct)

\* `1 - deep_pct - rem_pct`
light_pct(deep_pct, rem_pct) == RSub(RSub(RInt(1), deep_pct), rem_pct)

\* generate_sleep_data(date); d holds the values drawn from random:
\* duration_gauss in hours, quality_noise, and the two uniform offsets.
\* durationHours is in hundredths of an hour, qualityScore in tenths.
generate_sleep_data(date, d) ==
    LET duration == RMax(Rat(55, 10), RMin(Rat(95, 10), d.duration_gauss))
        quality == Clamp(40, 100,
                         RAdd(RAdd(RInt(70), RMul(RSub(duration, RInt(6)), RInt(5))),
                              RInt(d.quality_noise)))
        total_minutes == PyInt(RMul(duration, RInt(60)))
        deep_pct == RAdd(Rat(15, 100), d.deep_uniform)
        rem_pct == RAdd(Rat(25, 100), d.rem_uniform)
    IN  [date |-> date,
         durationHours |-> Round2(duration),
         qualityScore |-> Round1(quality),
         deepSleepMinutes |-> PyInt(RMul(RInt(total_minutes), deep_pct)),
         remSleepMinutes |-> PyInt(RMul(RInt(total_minutes), rem_pct)),
         lightSleepMinutes |-> PyInt(RMul(RInt(total_minutes), light_pct(deep_pct, rem_pct)))]

\* ------------------------------------------------------------ the system
\* no request pending, no generator call pending
AggIdle ==
    /\ request = [metrics |-> <<>>, sleepData |-> None]
    /\ pc = "idle"
    /\ locals = NoLocals
    /\ upstream = "not_called"
    /\ response = None

GenIdle ==
    /\ gen_call = None
    /\ gen_result = None

\* run_simulation not started
RunIdle ==
    /\ clock = 0
    /\ rpc = "idle"
    /\ current_time = None
    /\ last_sleep_date = None
    /\ run_metrics = None
    /\ run_sleep_data = None
    /\ health_docs = <<>>
    /\ sleep_docs = <<>>
    /\ last_send = None
    /\ iteration = 0
    /\ trace = <<>>
    /\ seen_dates = {}
    /\ sleep_generated = <<>>

Init ==
    /\ request \in Requests
    /\ pc = "received"
    /\ locals = NoLocals
    /\ upstream = "not_called"
    /\ response = None
    /\ GenIdle
    /\ RunIdle

\* POST /analyze-health: one call of analyze_health on the pending request
AnalyzeHealth ==
    /\ pc = "received"
    /\ LET agg == Aggregate(request)
       IN  /\ locals' = agg.locals
           /\ IF agg.raised = "HTTPException" THEN
                  /\ upstream' = "not_called"
                  /\ response' = Some(HTTPError(400, "No health metrics provided"))
              ELSE IF agg.raised # "" THEN
                  /\ upstream' = "not_called"
                  /\ response' = Some(Failed(agg.raised))
              ELSE
                  \E reply \in LlmReplies :
                      /\ upstream' = reply
                      /\ response' = Some(Respond(agg.locals, reply))
    /\ pc' = "done"
    /\ UNCHANGED request
    /\ UNCHANGED <<genVars, runVars>>

Next == AnalyzeHealth

Spec == Init /\ [][Next]_vars

TypeOK ==
    /\ request \in Requests
    /\ pc \in {"idle", "received", "done"}
    /\ upstream \in LlmReplies \cup {"not_called"}

\* ------------------------------------------- the generator's functions
\* every minute of the day
Times == [date : {0}, hour : 0..23, minute : 0..59]

\* values drawn by random.gauss and random.uniform(100, 300) in
\* generate_metrics: far tails of every gauss in both directions, and no
\* noise at all
MetricDraws ==
    [hr_noise : {-100, 100}, resting_noise : {-100, 100},
     hrv_noise : {-100, 100}, steps_uniform : {100, 300},
     spo2_noise : {-100, 100}]
    \cup {[hr_noise |-> 0, resting_noise |-> 0, hrv_noise |-> 0,
           steps_uniform |-> 200, spo2_noise |-> 0]}

\* values drawn in generate_sleep_data: gauss(7.5, 0.5) in hours,
\* gauss(0, 5), uniform(-0.03, 0.03), uniform(-0.05, 0.05)
SleepDraws ==
    [duration_gauss : {Rat(5, 1), Rat(7499, 1000), Rat(75, 10), Rat(10, 1)},
     quality_noise : {-100, 0, 100},
     deep_uniform : {Rat(-3, 100), Rat(0, 1), Rat(5, 1000), Rat(3, 100)},
     rem_uniform : {Rat(-5, 100), Rat(0, 1), Rat(5, 1000), Rat(5, 100)}]

GenCalls ==
    [op : {"get_time_of_day_factor"}, time : Times]
    \cup [op : {"generate_metrics"}, time : Times, draws : MetricDraws]
    \cup [op : {"generate_sleep_data"}, time : {[date |-> 0, hour |-> 0, minute |-> 0]},
          draws : SleepDraws]

GenInit ==
    /\ AggIdle
    /\ RunIdle
    /\ gen_call \in {Some(c) : c \in GenCalls}
    /\ gen_result = None

GetTimeOfDayFactor ==
    /\ gen_call # None
    /\ gen_call[1].op = "get_time_of_day_factor"
    /\ gen_result = None
    /\ gen_result' = Some(get_time_of_day_factor(gen_call[1].time))
    /\ UNCHANGED <<gen_call, aggVars, runVars>>

GenerateMetrics ==
    /\ gen_call # None
    /\ gen_call[1].op = "generate_metrics"
    /\ gen_result = None
    /\ gen_result' = Some(generate_metrics(gen_call[1].time, gen_call[1].draws))
    /\ UNCHANGED <<gen_call, aggVars, runVars>>

GenerateSleepData ==
    /\ gen_call # None
    /\ gen_call[1].op = "generate_sleep_data"
    /\ gen_result = None
    /\ gen_result' = Some(generate_sleep_data(gen_call[1].time.date, gen_call[1].draws))
    /\ UNCHANGED <<gen_call, aggVars, runVars>>

GenNext == GetTimeOfDayFactor \/ GenerateMetrics \/ GenerateSleepData

GenSpec == GenInit /\ [][GenNext]_vars

\* ------------------------------------------------------ the run loop
\* run_simulation and send_to_firestore.  The clock counts minutes since
\* 00:00 of date 0.
ToTime(c) ==
    [date |-> c \div (24 * 60), hour |-> (c % (24 * 60)) \div 60, minute |-> c % 60]

\* where the process is started: 00:00, 08:30, 15:00 and 23:59 of date 0
StartClocks == {0, 8 * 60 + 30, 15 * 60, 23 * 60 + 59}

\* minutes between two readings of datetime.now(): time.sleep(60) and the
\* time the blocking writes took
Elapsed == {INTERVAL_MINUTES, 59, 8 * 60, 24 * 60}

\* what db...document(doc_id).set(data) does
SetOutcomes == {"ok", "failed"}

\* mutant: the sleep summary is sent before the sample
LoopBodySleepFirst == <<"tick", "sleep_check", "send_sleep", "send_metrics", "wait">>

\* the statements of the `while True` body, in order: 202-205, 206,
\* 209-210, 211-212, 215
LoopBody == <<"tick", "send_metrics", "sleep_check", "send_sleep", "wait">>

\* the statement after step (the body repeats)
After(step) ==
    LET i == CHOOSE k \in 1..Len(LoopBody) : LoopBody[k] = step
    IN  LoopBody[(i % Len(LoopBody)) + 1]

\* mutant: no `except`, the exception leaves send_to_firestore
SendRaises(outcome) == IF outcome = "failed" THEN "raised" ELSE "returned"

\* send_to_firestore as its caller sees it: `except Exception as e: print(...)`
\* turns a failed set() into a normal return
SendResult(outcome) == "returned"

\* mutant: no comparison with last_sleep_date
ShouldSendSleepEveryTick(t, last) == t.hour = 0

\* `current_time.hour == 00 and current_time.date() != last_sleep_date`
ShouldSendSleep(t, last) == t.hour = 0 /\ Some(t.date) # last

\* one call of send_to_firestore: one set(), one line printed
Send(collection, outcome) ==
    [collection |-> collection, outcome |-> outcome, set_calls |-> 1,
     error_printed |-> (outcome = "failed"), result |-> SendResult(outcome)]

RunInit ==
    /\ AggIdle
    /\ GenIdle
    /\ clock \in StartClocks
    /\ rpc = "tick"
    /\ current_time = None
    /\ last_sleep_date = None
    /\ run_metrics = None
    /\ run_sleep_data = None
    /\ health_docs = <<>>
    /\ sleep_docs = <<>>
    /\ last_send = None
    /\ iteration = 0
    /\ trace = <<>>
    /\ seen_dates = {}
    /\ sleep_generated = <<>>

\* lines 202-205: read the clock, generate the sample
Tick ==
    /\ rpc = "tick"
    /\ iteration < MaxTicks
    /\ current_time' = Some(ToTime(clock))
    /\ \E d \in MetricDraws : run_metrics' = Some(generate_metrics(ToTime(clock), d))
    /\ iteration' = iteration + 1
    /\ trace' = <<"generate">>
    /\ seen_dates' = seen_dates \cup
                        (IF current_time = None THEN {} ELSE {current_time[1].date})
    /\ rpc' = After("tick")
    /\ UNCHANGED <<clock, last_sleep_date, run_sleep_data, health_docs, sleep_docs,
                   last_send, sleep_generated, aggVars, genVars>>

\* line 206: send_to_firestore('health_metrics', metrics); the sink keeps
\* the document when set() succeeds (only activeMinutes is modelled)
SendMetrics ==
    /\ rpc = "send_metrics"
    /\ \E outcome \in SetOutcomes :
        /\ last_send' = Some(Send("health_metrics", outcome))
        /\ health_docs' =
              IF outcome = "ok"
              THEN Append(health_docs, [activeMinutes |-> run_metrics[1].activeMinutes])
              ELSE health_docs
        /\ rpc' = IF Send("health_metrics", outcome).result = "raised"
                  THEN "crashed" ELSE After("send_metrics")
    /\ trace' = Append(trace, "write_metrics")
    /\ run_metrics' = None
    /\ UNCHANGED <<clock, current_time, last_sleep_date, run_sleep_data, sleep_docs,
                   iteration, seen_dates, sleep_generated, aggVars, genVars>>

\* lines 209-210: the day-change check and generate_sleep_data
SleepCheck ==
    /\ rpc = "sleep_check"
    /\ IF ShouldSendSleep(current_time[1], last_sleep_date) THEN
           /\ \E d \in SleepDraws :
                 run_sleep_data' = Some(generate_sleep_data(current_time[1].date, d))
           /\ sleep_generated' = Append(sleep_generated, current_time[1].date)
           /\ rpc' = After("sleep_check")
       ELSE
           /\ rpc' = After(After("sleep_check"))
           /\ UNCHANGED <<run_sleep_data, sleep_generated>>
    /\ UNCHANGED <<clock, current_time, last_sleep_date, run_metrics, health_docs,
                   sleep_docs, last_send, iteration, trace, seen_dates,
                   aggVars, genVars>>

\* lines 211-212: send_to_firestore('sleep_data', sleep_data), then
\* last_sleep_date = current_time.date()
SendSleep ==
    /\ rpc = "send_sleep"
    /\ \E outcome \in SetOutcomes :
        /\ last_send' = Some(Send("sleep_data", outcome))
        /\ sleep_docs' =
              IF outcome = "ok" THEN Append(sleep_docs, run_sleep_data[1].date)
              ELSE sleep_docs
        /\ IF Send("sleep_data", outcome).result = "raised"
           THEN rpc' = "crashed" /\ UNCHANGED last_sleep_date
           ELSE /\ rpc' = After("send_sleep")
                /\ last_sleep_date' = Some(current_time[1].date)
    /\ trace' = Append(trace, "write_sleep")
    /\ run_sleep_data' = None
    /\ UNCHANGED <<clock, current_time, run_metrics, health_docs, iteration,
                   seen_dates, sleep_generated, aggVars, genVars>>

\* line 215: time.sleep(INTERVAL_MINUTES * 60)
Wait ==
    /\ rpc = "wait"
    /\ \E e \in Elapsed : clock' = clock + e
    /\ trace' = Append(trace, "wait")
    /\ rpc' = After("wait")
    /\ UNCHANGED <<current_time, last_sleep_date, run_metrics, run_sleep_data,
                   health_docs, sleep_docs, last_send, iteration, seen_dates,
                   sleep_generated, aggVars, genVars>>

RunNext == Tick \/ SendMetrics \/ SleepCheck \/ SendSleep \/ Wait

RunSpec == RunInit /\ [][RunNext]_vars

\* ------------------------------------------------------------- the claims
Done == pc = "done"
NonEmpty == Len(request.metrics) >= 1
Hrv == hrv_values(request.metrics)
N == Len(request.metrics)

\* alert a is in the list the handler built
Emitted(a) ==
    /\ locals.alerts # None
    /\ \E i \in 1..Len(locals.alerts[1]) : locals.alerts[1][i] = a

\* C1: an empty metrics list is answered 400 "No health metrics provided",
\* with no statistic computed, no alert list created, no call of the hosted
\* model and no body.
C1_EmptyFailsAtomically ==
    (Done /\ request.metrics = <<>>) =>
        /\ response = Some([status |-> 400,
                            detail |-> "No health metrics provided",
                            body |-> None])
        /\ locals = NoLocals
        /\ upstream = "not_called"

C1_Witness ==
    /\ Done
    /\ request.metrics = <<>>
    /\ request.sleepData = Some([durationHours |-> 59])
    /\ response[1].status = 400

\* C2: for n >= 1 median_hrv is the value v of the batch with at most
\* floor(n/2) HRV values below it and more than floor(n/2) values not above
\* it (the element of rank floor(n/2) in ascending order), whatever the
\* order of the samples; a 200 response reports it as medianHRV.
C2_MedianIsUpperMiddle ==
    (Done /\ NonEmpty) =>
        /\ locals.median_hrv # None
        /\ LET v == locals.median_hrv[1]
           IN  /\ \E i \in 1..N : Hrv[i] = v
               /\ Cardinality({i \in 1..N : Hrv[i] < v}) <= N \div 2
               /\ Cardinality({i \in 1..N : Hrv[i] <= v}) > N \div 2
               /\ response[1].status = 200 =>
                      response[1].body[1].dailyStats.medianHRV = 10 * v

C2_Witness ==
    /\ Done
    /\ Hrv = <<50, -10, 40, 30>>
    /\ locals.median_hrv = Some(40)
    /\ response[1].status = 200

\* C3: for every non-empty batch 0 <= stress_level <= 10, and so is the
\* stressLevel of a 200 response (0..100 tenths).
C3_StressInRange ==
    (Done /\ NonEmpty) =>
        /\ locals.stress_level # None
        /\ ~RLt(locals.stress_level[1], RInt(0))
        /\ ~RGt(locals.stress_level[1], RInt(10))
        /\ response[1].status = 200 =>
               response[1].body[1].dailyStats.stressLevel \in 0..100

\* the cap is what bounds it: the variance over ten is above 10
C3_Witness ==
    /\ Done
    /\ NonEmpty
    /\ RGt(hrv_variance(request.metrics), RInt(100))
    /\ locals.stress_level[1].num = 10 * locals.stress_level[1].den

\* sums and sizes of the two halves of the HRV values, in input order
FirstSum == Sum(SubSeq(Hrv, 1, N \div 2))
SecondSum == Sum(SubSeq(Hrv, (N \div 2) + 1, N))
FirstSize == N \div 2
SecondSize == N - (N \div 2)

\* first-half mean minus second-half mean exceeds 20% of the first-half
\* mean (both sides multiplied by 5 * FirstSize * SecondSize)
DropOverTwentyPercent ==
    5 * (FirstSum * SecondSize - SecondSum * FirstSize) > FirstSum * SecondSize

\* C4 as stated: for n > 1 the HRV-drop alert is emitted iff the first-half
\* mean minus the second-half mean exceeds 20% of the first-half mean; for
\* n = 1 it is never emitted.
C4_Original ==
    (Done /\ NonEmpty) =>
        (Emitted(HRV_DROP) <=> (N > 1 /\ DropOverTwentyPercent))

\* C4 amended: for n > 1 the HRV-drop alert is emitted iff the first-half
\* mean (input order) is positive and exceeds the second-half mean by more
\* than 20% of itself; for n = 1 it is never emitted.
C4_HrvDropRule ==
    (Done /\ NonEmpty) =>
        (Emitted(HRV_DROP) <=>
            (N > 1 /\ FirstSum > 0 /\ DropOverTwentyPercent))

\* the same values in ascending order would not fire: the split is in
\* input order
C4_Witness ==
    /\ Done
    /\ Hrv = <<50, 40, 30>>
    /\ Emitted(HRV_DROP)

\* the samples that carry an spo2 value, and the sum of those values
Spo2Present == {i \in 1..N : request.metrics[i].spo2 # None}
Spo2Sum == Sum(spo2_values(request.metrics))

\* C5: for every non-empty batch the low-SpO2 alert is emitted iff some
\* sample has an spo2 value and the mean of the present values is below 94.
C5_LowSpo2Rule ==
    (Done /\ NonEmpty) =>
        (Emitted(SPO2_LOW) <=>
            (Spo2Present # {} /\ Spo2Sum < 94 * Cardinality(Spo2Present)))

\* C6: the avgSpO2 of a result is null iff no sample has spo2, and is
\* otherwise the mean of the present values (at the response's one decimal).
C6_AvgSpo2 ==
    (Done /\ response[1].status = 200) =>
        LET avg == response[1].body[1].dailyStats.avgSpO2
        IN  /\ avg = None <=> Spo2Present = {}
            /\ Spo2Present # {} =>
                   avg = Some(Round1(Rat(Spo2Sum, Cardinality(Spo2Present))))

C8_SleepRule ==
    (Done /\ NonEmpty) =>
        (Emitted(SLEEP_LOW) <=>
            (request.sleepData # None /\ request.sleepData[1].durationHours < 60))

C8_Witness ==
    /\ Done
    /\ request.sleepData = Some([durationHours |-> 59])
    /\ Emitted(SLEEP_LOW)
    /\ ~Emitted(SEDENTARY)

\* position of an alert in the fixed order of the rules
Rank(a) ==
    CASE a = HRV_DROP -> 1
      [] a = SLEEP_LOW -> 2
      [] a = SPO2_LOW -> 3
      [] a = SEDENTARY -> 4
      [] OTHER -> 0

\* C9: the alert list holds only the four alerts, in the order HRV drop,
\* sleep shortage, low oxygenation, sedentary day, each at most once.
C9_AlertOrder ==
    (Done /\ locals.alerts # None) =>
        LET al == locals.alerts[1]
        IN  /\ \A i \in 1..Len(al) : Rank(al[i]) \in 1..4
            /\ \A i, j \in 1..Len(al) : i < j => Rank(al[i]) < Rank(al[j])
            /\ response[1].status = 200 => response[1].body[1].alerts = al

C9_Witness ==
    /\ Done
    /\ locals.alerts = Some(<<HRV_DROP, SLEEP_LOW, SPO2_LOW, SEDENTARY>>)

StatNames ==
    {"avgRestingHR", "medianHRV", "totalSteps", "totalCalories",
     "totalActiveMinutes", "avgSpO2", "stressLevel"}

\* C10: for every non-empty batch, unless the hosted model fails, the
\* handler raises nothing and answers 200 with the alert list and all seven
\* statistics.
C10_CompleteResult ==
    (Done /\ NonEmpty /\ upstream \in {"ok", "not_called"}) =>
        /\ response[1].status = 200
        /\ response[1].body # None
        /\ DOMAIN response[1].body[1].dailyStats = StatNames
        /\ response[1].body[1].alerts = locals.alerts[1]

\* sum of the squared deviations of the HRV values from v
SquaredDeviations(v) == Sum([i \in 1..N |-> (Hrv[i] - v) * (Hrv[i] - v)])

\* C11: stress_level is min(10, V / 10), V being the mean over the samples
\* of the squared deviation of each HRV value from median_hrv:
\* 10 when V >= 100, and otherwise the rational V / 10.
C11_StressFromMedianDeviation ==
    (Done /\ NonEmpty) =>
        LET V == SquaredDeviations(locals.median_hrv[1])
            s == locals.stress_level[1]
        IN  IF V >= 100 * N
            THEN s.num = 10 * s.den
            ELSE s.num * 10 * N = V * s.den

\* 50, 40: median 50, V = 50, stress 5 (around the mean 45 it would be 2.5)
C11_Witness ==
    /\ Done
    /\ Hrv = <<50, 40>>
    /\ locals.median_hrv = Some(50)
    /\ locals.stress_level[1].num = 5 * locals.stress_level[1].den

\* ------------------------------------------- claims on the generator
\* the pending call is op and it has returned
Returned(op) ==
    /\ gen_call # None
    /\ gen_call[1].op = op
    /\ gen_result # None

CallTime == gen_call[1].time
Result == gen_result[1]

\* minutes since midnight of the call's clock time
MinuteOfDay == 60 * CallTime.hour + CallTime.minute

\* a equals the decimal n / d
Is(a, n, d) == a.num * d = n * a.den

InSleepHours == MinuteOfDay >= 23 * 60 \/ MinuteOfDay < 7 * 60
InAfternoonPeak == 14 * 60 <= MinuteOfDay /\ MinuteOfDay < 18 * 60

\* C12: at every clock time of the Sleep phase (23:00-07:00) the factors
\* have is_sleeping = TRUE and activity = 0, at every time of the afternoon
\* peak (14:00-18:00) activity = 0.8, and is_sleeping is TRUE at no other
\* time; a generated sample carries the same is_sleeping whatever is drawn.
C12_SleepAndPeakFactors ==
    /\ Returned("get_time_of_day_factor") =>
        /\ InSleepHours => (Result.is_sleeping /\ Is(Result.activity, 0, 1))
        /\ InAfternoonPeak => Is(Result.activity, 8, 10)
        /\ Result.is_sleeping => InSleepHours
    /\ Returned("generate_metrics") => (Result.is_sleeping <=> InSleepHours)

C12_Witness ==
    /\ Returned("get_time_of_day_factor")
    /\ CallTime.hour = 3
    /\ CallTime.minute = 0
    /\ Result.is_sleeping
    /\ Is(Result.activity, 0, 1)

\* C13: every generated sample has heartRate in [45, 120], restingHeartRate
\* in [50, 75], hrv in [20, 100], spo2 in [94, 100] (tenths below), and
\* steps, calories and activeMinutes >= 0.
C13_SampleRanges ==
    Returned("generate_metrics") =>
        /\ Result.heartRate \in 450..1200
        /\ Result.restingHeartRate \in 500..750
        /\ Result.hrv \in 200..1000
        /\ Result.spo2 \in 940..1000
        /\ Result.steps >= 0
        /\ Result.calories >= 0
        /\ Result.activeMinutes >= 0

\* every draw is far outside: all four clamps act
C13_Witness ==
    /\ Returned("generate_metrics")
    /\ gen_call[1].draws.hr_noise = -100
    /\ gen_call[1].draws.hrv_noise = 100
    /\ Result.heartRate = 450
    /\ Result.hrv = 1000
    /\ Result.spo2 \in {940, 1000}

StageMinutes ==
    Result.deepSleepMinutes + Result.remSleepMinutes + Result.lightSleepMinutes

\* round(durationHours * 60), durationHours being in hundredths
ReportedMinutes == Round1(Rat(Result.durationHours * 60, 1000))

\* C14 as stated: the three stage minutes sum to within 1 minute of
\* round(durationHours * 60).
C14_Original ==
    Returned("generate_sleep_data") =>
        /\ StageMinutes - ReportedMinutes <= 1
        /\ ReportedMinutes - StageMinutes <= 1

\* C14 amended: the three stage minutes never sum to more than
\* round(durationHours * 60) and fall at most 3 minutes short of it.
C14_StageMinutes ==
    Returned("generate_sleep_data") =>
        /\ StageMinutes <= ReportedMinutes
        /\ ReportedMinutes - StageMinutes <= 3

\* 7.499 h: 449 whole minutes, reported 7.5 h = 450, stages 69 + 114 + 264
C14_Witness ==
    /\ Returned("generate_sleep_data")
    /\ Result.durationHours = 750
    /\ ReportedMinutes = 450
    /\ StageMinutes = 447

SameValue(a, b) == a.num * b.den = b.num * a.den
Between(a, lo, hi) == ~RLt(a, lo) /\ ~RLt(hi, a)

\* the phase table: name, first minute, minute after the last, and the
\* (hr, hrv, activity) values at the start and at the end of the phase
PhaseTable ==
    <<[name |-> "wake-up", from |-> 7 * 60, to |-> 9 * 60,
       start |-> <<Rat(75, 100), Rat(130, 100), Rat(0, 10)>>,
       end |-> <<Rat(100, 100), Rat(100, 100), Rat(3, 10)>>],
      [name |-> "mid-morning", from |-> 9 * 60, to |-> 12 * 60,
       start |-> <<Rat(110, 100), Rat(95, 100), Rat(6, 10)>>,
       end |-> <<Rat(110, 100), Rat(95, 100), Rat(6, 10)>>],
      [name |-> "lunch dip", from |-> 12 * 60, to |-> 14 * 60,
       start |-> <<Rat(95, 100), Rat(105, 100), Rat(3, 10)>>,
       end |-> <<Rat(95, 100), Rat(105, 100), Rat(3, 10)>>],
      [name |-> "afternoon peak", from |-> 14 * 60, to |-> 18 * 60,
       start |-> <<Rat(115, 100), Rat(85, 100), Rat(8, 10)>>,
       end |-> <<Rat(115, 100), Rat(85, 100), Rat(8, 10)>>],
      [name |-> "wind-down", from |-> 18 * 60, to |-> 21 * 60,
       start |-> <<Rat(110, 100), Rat(90, 100), Rat(5, 10)>>,
       end |-> <<Rat(90, 100), Rat(110, 100), Rat(2, 10)>>],
      [name |-> "pre-sleep", from |-> 21 * 60, to |-> 23 * 60,
       start |-> <<Rat(85, 100), Rat(115, 100), Rat(1, 10)>>,
       end |-> <<Rat(85, 100), Rat(115, 100), Rat(1, 10)>>],
      [name |-> "sleep", from |-> 23 * 60, to |-> 24 * 60 + 7 * 60,
       start |-> <<Rat(75, 100), Rat(130, 100), Rat(0, 10)>>,
       end |-> <<Rat(75, 100), Rat(130, 100), Rat(0, 10)>>]>>

\* minute m of the day is in phase ph (the sleep phase wraps past midnight)
InPhase(ph, m) ==
    \/ ph.from <= m /\ m < ph.to
    \/ ph.from <= m + 24 * 60 /\ m + 24 * 60 < ph.to

\* start + (end - start) * elapsed / span, for component k of phase ph
Interpolated(ph, k, m) ==
    LET elapsed == IF m >= ph.from THEN m - ph.from ELSE m + 24 * 60 - ph.from
    IN  RAdd(ph.start[k],
             RMul(RSub(ph.end[k], ph.start[k]), Rat(elapsed, ph.to - ph.from)))

FactorTriple == <<Result.hr_multiplier, Result.hrv_multiplier, Result.activity>>

\* C18: every minute of the day is in exactly one of the seven phases
\* (boundaries 07, 09, 12, 14, 18, 21, 23, start included); in that phase
\* each factor is start + (end - start) * elapsed / span, and lies between
\* the phase's start and end values (so 07:00 gives 0.75, 1.30, 0 and 18:00
\* gives 1.10, 0.90, 0.5).
C18_PhasesAndInterpolation ==
    Returned("get_time_of_day_factor") =>
        /\ Cardinality({i \in 1..Len(PhaseTable) :
                           InPhase(PhaseTable[i], MinuteOfDay)}) = 1
        /\ \A i \in 1..Len(PhaseTable) :
              InPhase(PhaseTable[i], MinuteOfDay) =>
                  \A k \in 1..3 :
                      LET ph == PhaseTable[i]
                          lo == RMin(ph.start[k], ph.end[k])
                          hi == RMax(ph.start[k], ph.end[k])
                      IN  /\ SameValue(FactorTriple[k],
                                       Interpolated(ph, k, MinuteOfDay))
                          /\ Between(FactorTriple[k], lo, hi)
        /\ MinuteOfDay = 7 * 60 =>
              /\ Is(Result.hr_multiplier, 75, 100)
              /\ Is(Result.hrv_multiplier, 130, 100)
              /\ Is(Result.activity, 0, 1)
        /\ MinuteOfDay = 18 * 60 =>
              /\ Is(Result.hr_multiplier, 110, 100)
              /\ Is(Result.hrv_multiplier, 90, 100)
              /\ Is(Result.activity, 5, 10)

\* 19:30, half way through wind-down: 1.00, 1.00, 0.35
C18_Witness ==
    /\ Returned("get_time_of_day_factor")
    /\ MinuteOfDay = 19 * 60 + 30
    /\ Is(Result.hr_multiplier, 1, 1)
    /\ Is(Result.hrv_multiplier, 1, 1)
    /\ Is(Result.activity, 35, 100)


\* ------------------------------------------- the claims on the run loop
\* (RunSpec)
Count(seq, x) == Cardinality({i \in 1..Len(seq) : seq[i] = x})
Dates(seq) == {seq[i] : i \in 1..Len(seq)}
Now == current_time[1]
LastSendFailed == last_send # None /\ last_send[1].outcome = "failed"

\* C15: over a run whose clock never goes back, generate_sleep_data is called
\* at most once for a calendar date and at most one summary of a date is
\* written; while a summary is waiting to be sent, the date of the current
\* iteration was seen by no earlier iteration and was marked by none.
C15_OneSleepSummaryPerDate ==
    /\ \A d \in Dates(sleep_generated) : Count(sleep_generated, d) = 1
    /\ \A d \in Dates(sleep_docs) :
          Count(sleep_docs, d) = 1 /\ d \in Dates(sleep_generated)
    /\ run_sleep_data # None =>
          /\ run_sleep_data[1].date = Now.date
          /\ Now.hour = 0
          /\ Now.date \notin seen_dates
          /\ last_sleep_date # Some(Now.date)

\* a later iteration in hour 0 of a date whose summary was generated: the
\* check was passed without a second summary
C15_Witness ==
    /\ rpc = "wait"
    /\ Now.hour = 0
    /\ Now.date \in seen_dates
    /\ last_sleep_date = Some(Now.date)
    /\ trace = <<"generate", "write_metrics">>
    /\ Count(sleep_generated, Now.date) = 1

\* C16 as written: a failed write is surfaced to the caller of
\* send_to_firestore (the call raises), and the write is attempted once.
C16_Original ==
    LastSendFailed => last_send[1].result = "raised" /\ last_send[1].set_calls = 1

\* C16: a failed write is attempted once and is not surfaced: the error is
\* printed inside send_to_firestore, the call returns normally and the loop
\* goes on to its next statement; after a failed sleep write the date is
\* marked as sent although the sink has no summary for it.
C16_FailedWriteIsAbsorbed ==
    LastSendFailed =>
        /\ last_send[1].set_calls = 1
        /\ last_send[1].error_printed
        /\ last_send[1].result = "returned"
        /\ rpc # "crashed"
        /\ (last_send[1].collection = "sleep_data"
              /\ trace[Len(trace)] = "write_sleep") =>
                 /\ last_sleep_date = Some(Now.date)
                 /\ Now.date \notin Dates(sleep_docs)

\* the sleep write of an iteration has just failed
C16_Witness ==
    /\ LastSendFailed
    /\ last_send[1].collection = "sleep_data"
    /\ rpc = "wait"
    /\ trace = <<"generate", "write_metrics", "write_sleep">>
    /\ last_sleep_date = Some(Now.date)
    /\ sleep_docs = <<>>

IterationWithSleep == <<"generate", "write_metrics", "write_sleep", "wait">>
IterationWithoutSleep == <<"generate", "write_metrics", "wait">>
IsPrefix(p, q) == Len(p) <= Len(q) /\ \A i \in 1..Len(p) : p[i] = q[i]

\* C17: the steps of one iteration happen in the order generate, one sample
\* write, at most one sleep write, wait (the sleep write after the sample
\* write); and an iteration begins only when the one before has waited.
C17_SequentialLoop ==
    /\ IsPrefix(trace, IterationWithSleep) \/ IsPrefix(trace, IterationWithoutSleep)
    /\ Count(trace, "write_metrics") <= 1
    /\ Count(trace, "write_sleep") <= 1
    /\ rpc = "tick" /\ iteration > 0 =>
          trace \in {IterationWithSleep, IterationWithoutSleep}
    /\ rpc = "send_metrics" => trace = <<"generate">>
    /\ rpc = "send_sleep" => trace = <<"generate", "write_metrics">>

\* a second iteration that has sent both documents and waited
C17_Witness ==
    /\ iteration >= 2
    /\ rpc = "tick"
    /\ trace = IterationWithSleep

\* the samples the loop has stored, as a batch of the aggregator
StoredBatchIsSedentary ==
    /\ \A i \in 1..Len(health_docs) : health_docs[i].activeMinutes = 0
    /\ health_docs # <<>> =>
          total_active_minutes(health_docs) = 0 /\ SedentaryAlert(health_docs)

\* ------------------------------------ the generator and the aggregator
\* (GenSpec)
\* a batch of n samples like the one generated
BatchOf(n) == [i \in 1..n |-> [activeMinutes |-> Result.activeMinutes]]

\* C19: with INTERVAL_MINUTES = 1 the activity factor is below 1 at every
\* minute of the day, every generated sample has activeMinutes 0, and a batch
\* of such samples, of any size, has 0 active minutes in total and raises
\* the sedentary alert of the aggregator.
C19_AlwaysSedentary ==
    /\ INTERVAL_MINUTES = 1
    /\ Returned("get_time_of_day_factor") =>
          RLt(Result.activity, RInt(1)) /\ active_minutes(Result.activity) = 0
    /\ Returned("generate_metrics") =>
          /\ Result.activeMinutes = 0
          /\ \A n \in 1..MaxLen :
                /\ total_active_minutes(BatchOf(n)) = 0
                /\ SedentaryAlert(BatchOf(n))

\* a sample of the afternoon peak, the most active phase of the day
C19_Witness ==
    /\ Returned("generate_metrics")
    /\ CallTime.hour = 15
    /\ ~Result.is_sleeping
    /\ Result.steps > 0
    /\ Result.activeMinutes = 0
    /\ SedentaryAlert(BatchOf(MaxLen))

====
